---- MODULE Spec2Model ----
(***************************************************************************)
(* toy-rpc: one client connection (src/src/client.rs, the client built on  *)
(* a codec mutex and a pending map) talking over a message transport to    *)
(* the actix-web websocket server actor                                    *)
(* (toy-rpc/src/server/http_actix_web.rs).                                 *)
(*                                                                         *)
(* Strings that the code inspects (service_method) are sequences of        *)
(* one-character strings.  Payloads on the wire are records tagged with    *)
(* the type that was marshalled; unmarshalling a payload as another type   *)
(* fails with ParseError (a self-describing codec such as serde_json).     *)
(***************************************************************************)
EXTENDS Integers, Sequences, FiniteSets, TLC

(* ---------------------------------------------------------------- bounds *)
\* number of calls the client issues on the connection
NumCalls == 2

\* u16 message id
IdModulus == 65536

Calls == 1..NumCalls

(* --------------------------------------------------------------- strings *)
Dot == "."

\* service_method strings of the calls; the service registered as "Ar" stands
\* for the example server's Arith
Ar_add      == <<"A","r",".","a","d","d">>
ar_add      == <<"a","r",".","a","d","d">>
noseparator == <<"n","o","s","e","p">>
a_b_c       == <<"a",".","b",".","c">>

SvcAr == <<"A","r">>
SvcAB == <<"a",".","b">>
MAdd == <<"a","d","d">>
MSub == <<"s","u","b">>
MFoo == <<"f","o","o">>
MC   == <<"c">>
Ar_fail == <<"A","r",".","f","a","i","l">>
MFail == <<"f","a","i","l">>
Ar_map == <<"A","r",".","m","a","p">>
MMap == <<"m","a","p">>

\* the argument values a caller passes
PairArgs == <<2, 3>>
UnitArgs == <<>>

\* (service_method, args) of the calls the client makes
Inputs ==
    { <<Ar_add, PairArgs>>, <<Ar_add, UnitArgs>>, <<ar_add, PairArgs>>,
      <<noseparator, UnitArgs>>, <<a_b_c, UnitArgs>> }

(* ---------------------------------------------------------------- errors *)
Err(e, s) == [e |-> e, s |-> s]

InvalidArgument  == Err("InvalidArgument", "")
ServiceNotFound  == Err("ServiceNotFound", "")
MethodNotFound   == Err("MethodNotFound", "")
ParseError       == Err("ParseError", "")
Internal         == Err("Internal", "")
ExecutionError(s) == Err("ExecutionError", s)
IoError(s)        == Err("IoError", s)
TransportError(s) == Err("TransportError", s)

\* Canceled(Option<MessageId>) and Timeout(Option<MessageId>); the Option is
\* << >> or << id >>
Canceled(o) == [e |-> "Canceled", s |-> "", id |-> o]
Timeout(o)  == [e |-> "Timeout", s |-> "", id |-> o]

\* Ok(v) for a v that cannot be marshalled: its Serialize impl reports an
\* error, as a map keyed by tuples does to a codec that wants string keys
ROkNoMarshal(v) == [ok |-> TRUE, v |-> v, no_marshal |-> TRUE]
ROk(v)  == [ok |-> TRUE, v |-> v]
RErr(e) == [ok |-> FALSE, err |-> e]

\* ToString for the types that have a From impl
BoolToString(b) == IF b THEN "true" ELSE "false"

Digit(d) ==
    CASE d = 0 -> "0" [] d = 1 -> "1" [] d = 2 -> "2" [] d = 3 -> "3"
      [] d = 4 -> "4" [] d = 5 -> "5" [] d = 6 -> "6" [] d = 7 -> "7"
      [] d = 8 -> "8" [] d = 9 -> "9"

RECURSIVE NatToString(_)
NatToString(n) ==
    IF n < 10 THEN Digit(n) ELSE NatToString(n \div 10) \o Digit(n % 10)

IntToString(n) == IF n < 0 THEN "-" \o NatToString(0 - n) ELSE NatToString(n)

\* anyhow errors kept apart from the others: boxed as Internal
IntoError_AnyhowInternal(u) ==
    CASE u.ty = "Error"  -> u.err
      [] u.ty = "anyhow" -> Internal
      [] u.ty = "String" -> ExecutionError(u.str)
      [] u.ty = "str"    -> ExecutionError(u.str)
      [] u.ty = "bool"   -> ExecutionError(BoolToString(u.b))
      [] u.ty = "int"    -> ExecutionError(IntToString(u.n))

\* the conversion `?` applies to what a handler fails with: the From impls for
\* Error (an Error stays as it is)
IntoError(u) ==
    CASE u.ty = "Error"  -> u.err
      [] u.ty = "anyhow" -> ExecutionError(u.str)
      [] u.ty = "String" -> ExecutionError(u.str)
      [] u.ty = "str"    -> ExecutionError(u.str)
      [] u.ty = "bool"   -> ExecutionError(BoolToString(u.b))
      [] u.ty = "int"    -> ExecutionError(IntToString(u.n))

\* what a handler can fail with: values of the types with a From impl ...
UserErrors ==
    { [ty |-> "anyhow", str |-> "error"], [ty |-> "String", str |-> "oops"],
      [ty |-> "str", str |-> "bad"],
      [ty |-> "bool", b |-> TRUE], [ty |-> "bool", b |-> FALSE],
      [ty |-> "int", n |-> 7], [ty |-> "int", n |-> 0 - 12], [ty |-> "int", n |-> 300] }

\* ... and Errors themselves
HandlerErrors ==
    { [ty |-> "Error", err |-> e] :
        e \in { InvalidArgument, ServiceNotFound, MethodNotFound, ExecutionError("e"),
                Internal, IoError("io"), ParseError,
                Canceled(<< >>), Canceled(<< 0 >>), Timeout(<< >>), Timeout(<< 0 >>) } }

\* the calls of the error-path specification: "Ar.fail" with what to fail with
ErrInputs == { <<Ar_fail, <<u>> >> : u \in UserErrors \cup HandlerErrors }

\* the ErrorMessage enum: the wire form of an error
Msg(m, s) == [m |-> m, s |-> s]

\* from_err giving Canceled and Timeout a wire form as well
ErrorMessage_from_err_All(err) ==
    CASE err.e = "InvalidArgument" -> ROk(Msg("InvalidArgument", ""))
      [] err.e = "ServiceNotFound" -> ROk(Msg("ServiceNotFound", ""))
      [] err.e = "MethodNotFound"  -> ROk(Msg("MethodNotFound", ""))
      [] err.e = "ExecutionError"  -> ROk(Msg("ExecutionError", err.s))
      [] err.e = "Canceled"        -> ROk(Msg("ExecutionError", "Request is canceled"))
      [] err.e = "Timeout"         -> ROk(Msg("ExecutionError", "Request reached timeout"))
      [] OTHER                     -> RErr(err)

\* ErrorMessage::from_err: four kinds have a wire form, the others are
\* handed back as Err(e)
ErrorMessage_from_err(err) ==
    CASE err.e = "InvalidArgument" -> ROk(Msg("InvalidArgument", ""))
      [] err.e = "ServiceNotFound" -> ROk(Msg("ServiceNotFound", ""))
      [] err.e = "MethodNotFound"  -> ROk(Msg("MethodNotFound", ""))
      [] err.e = "ExecutionError"  -> ROk(Msg("ExecutionError", err.s))
      [] OTHER                     -> RErr(err)

\* from_err_msg with the arms of ServiceNotFound and MethodNotFound exchanged
Error_from_err_msg_Swapped(msg) ==
    CASE msg.m = "InvalidArgument" -> InvalidArgument
      [] msg.m = "ServiceNotFound" -> MethodNotFound
      [] msg.m = "MethodNotFound"  -> ServiceNotFound
      [] msg.m = "ExecutionError"  -> ExecutionError(msg.s)

\* Error::from_err_msg
Error_from_err_msg(msg) ==
    CASE msg.m = "InvalidArgument" -> InvalidArgument
      [] msg.m = "ServiceNotFound" -> ServiceNotFound
      [] msg.m = "MethodNotFound"  -> MethodNotFound
      [] msg.m = "ExecutionError"  -> ExecutionError(msg.s)

(* ----------------------------------------------------------------- codec *)
\* C::marshal: the payload remembers the type it was produced from
Marshal(ty, val) == [ty |-> ty, val |-> val]

\* C::unmarshal / erased deserialize into the type ty
Unmarshal(ty, payload) ==
    IF payload.ty = ty THEN ROk(payload.val) ELSE RErr(ParseError)

RequestHeader(id, service_method) == [id |-> id, service_method |-> service_method]
\* a Response header carrying the next id
ResponseHeader_NextId(id, is_error) == [id |-> (id + 1) % IdModulus, is_error |-> is_error]
ResponseHeader(id, is_error) == [id |-> id, is_error |-> is_error]

(* -------------------------------------------------------------- services *)
\* the service registry built by Server::builder().register(..).build():
\* service name -> names of its exported methods
services ==
    [s \in {SvcAr, SvcAB} |->
        IF s = SvcAr THEN {MAdd, MSub, MFoo, MFail, MMap} ELSE {MC}]

\* what the user method returns once its arguments are deserialized
UserMethod(method, args) ==
    CASE method = MAdd -> {ROk(args[1] + args[2])}
      [] method = MSub -> {ROk(args[1] - args[2])}
      [] method = MFoo -> {RErr(IntoError([ty |-> "anyhow", str |-> "error"]))}
      [] method = MFail -> {RErr(IntoError(args[1]))}
      [] method = MMap -> {ROkNoMarshal(0)}
      [] method = MC   -> {ROk(0), RErr(Internal)}

\* the argument type a method deserializes the request body into
ArgsOk(method, args) ==
    IF method \in {MAdd, MSub} THEN Len(args) = 2
    ELSE IF method = MFail THEN Len(args) = 1
    ELSE Len(args) = 0

\* ArcAsyncServiceCall: call(method, deserializer), the set of results the
\* handler future can complete with
ServiceCall(service, method, deserializer) ==
    IF method \notin services[service] THEN {RErr(MethodNotFound)}
    ELSE LET a == Unmarshal("Args", deserializer) IN
         IF ~a.ok THEN {RErr(ParseError)}
         ELSE IF ~ArgsOk(method, a.v) THEN {RErr(ParseError)}
         ELSE UserMethod(method, a.v)

(* ---------------------------------------------------------------- server *)
Max(S) == CHOOSE x \in S : \A y \in S : y <= x

\* str::find('.') in place of rfind: the first '.'
Find(s) ==
    LET I == {i \in 1..Len(s) : s[i] = Dot}
    IN IF I = {} THEN 0 ELSE CHOOSE i \in I : \A j \in I : i <= j

\* str::rfind('.'): position of the last '.', 0 for None (positions from 1)
RFind(s) ==
    LET I == {i \in 1..Len(s) : s[i] = Dot}
    IN IF I = {} THEN 0 ELSE Max(I)

\* service_method[..pos]
ServiceOf(s, pos) == SubSeq(s, 1, pos - 1)
\* service_method[pos + 1..]
MethodOf(s, pos) == SubSeq(s, pos + 1, Len(s))

\* the two early-return errors exchanged
NoSeparatorError_Swapped == RErr(ServiceNotFound)
NoServiceError_Swapped == RErr(MethodNotFound)

\* step [2]: the error sent back when service_method has no '.'
NoSeparatorError == RErr(MethodNotFound)

\* step [3]: the error sent back when the service is not in the map
NoServiceError == RErr(ServiceNotFound)

\* map_err leaving the handler's error as it is
MapHandlerErr_Keep(res) == res

\* the map_err closure of the spawned future: ParseError -> InvalidArgument
MapHandlerErr(res) ==
    IF ~res.ok /\ res.err.e = "ParseError" THEN RErr(InvalidArgument) ELSE res

\* C::marshal(&body) is Err for the value of res
MarshalFails(res) == "no_marshal" \in DOMAIN res

\* send_response_via_context without the ctx.binary of the Ok body
SendResponseViaContext_NoOkBody(id, res) ==
    IF res.ok
    THEN << Marshal("ResponseHeader", ResponseHeader(id, FALSE)) >>
    ELSE LET msg == ErrorMessage_from_err(res.err) IN
         IF ~msg.ok THEN << >>
         ELSE << Marshal("ResponseHeader", ResponseHeader(id, TRUE)),
                 Marshal("ErrorMessage", msg.v) >>

\* ServerActor::send_response_via_context: the binary messages handed to
\* ctx.binary, in order
SendResponseViaContext(id, res) ==
    IF res.ok
    THEN IF MarshalFails(res)
         THEN \* the header is handed to ctx.binary, then marshal(&body)? returns
              << Marshal("ResponseHeader", ResponseHeader(id, FALSE)) >>
         ELSE << Marshal("ResponseHeader", ResponseHeader(id, FALSE)),
                 Marshal("Value", res.v) >>
    ELSE LET msg == ErrorMessage_from_err(res.err) IN
         IF ~msg.ok THEN << >>
         ELSE << Marshal("ResponseHeader", ResponseHeader(id, TRUE)),
                 Marshal("ErrorMessage", msg.v) >>

(* ----------------------------------------------------------------- state *)
VARIABLES
    count,        \* Client.count: the AtomicMessageId
    inner_codec,  \* Client.inner_codec: the call holding the codec mutex, 0 if free
    pending,      \* Client.pending: id -> call whose oneshot sender is stored
    pc,           \* where each call's future is
    id,           \* the id each call fetched
    req,          \* <<service_method, args>> of each call, once it is written
    hdr,          \* the ResponseHeader a call has read (Option)
    done,         \* each call's oneshot channel: what was sent into it (Option)
    result,       \* what each call returned (Option)
    c2s,          \* binary messages written by the client, not yet handled
    s2c,          \* binary messages written by the server, not yet read
    stream,       \* the transport: "open" or "closed"
    req_header,   \* ServerActor.req_header (Option)
    running,      \* the handler futures spawned on the actor's context
    mailbox,      \* HandlerResultMessages sent to the actor, not yet handled
    dispatch_log, \* history: what the actor did with each request
    handler_log,  \* history: what each handler future completed with
    wire_out,     \* history: every binary message the server handed to ctx.binary
    result_log,   \* history: each HandlerResultMessage handled, with what was written
    wire,         \* frame transport: what the reader's read_frame yields, in order
    wire_closed,  \* frame transport: the peer has closed, end-of-stream follows
    rpos,         \* frame transport: how many items the reader has taken
    wmsg,         \* CodecWrite caller: the message whose body is still to be written (Option)
    rd,           \* ClientReader: "header", "body", "stopped" or "panicked"
    rd_header,    \* ClientReader::op: the header it decoded (Option)
    broker,       \* the ClientBrokerItems the reader sent to the broker
    op_log,       \* history: what each ClientReader::op returned
    write_log,    \* history: each write_header / write_body with the frame it wrote
    dial,         \* Client::dial_http: the address given and the Url dialled (Option)
    pending_lock, \* the mutex around Client.pending: the call holding it, 0 if free
    peer_log      \* history: the websocket messages a peer sent to the actor itself

client_vars == <<count, inner_codec, pending, pc, id, req, hdr, done, result>>
server_vars == <<req_header, running, mailbox, dispatch_log, handler_log, wire_out,
                 result_log>>
actix_vars == <<c2s, s2c, stream>>
reader_vars == <<wire, wire_closed, rpos, wmsg, rd, rd_header, broker, op_log, write_log>>
vars == <<count, inner_codec, pending, pc, id, req, hdr, done, result,
          c2s, s2c, stream,
          req_header, running, mailbox, dispatch_log, handler_log, wire_out, result_log,
          wire, wire_closed, rpos, wmsg, rd, rd_header, broker, op_log, write_log,
          dial, pending_lock, peer_log>>

None == << >>
Some(x) == << x >>

\* Client::with_codec and the ServerActor built by index()
Init ==
    /\ count = 0
    /\ inner_codec = 0
    /\ pending = << >>
    /\ pc = [c \in Calls |-> "idle"]
    /\ id = [c \in Calls |-> 0]
    /\ req = [c \in Calls |-> None]
    /\ hdr = [c \in Calls |-> None]
    /\ done = [c \in Calls |-> None]
    /\ result = [c \in Calls |-> None]
    /\ c2s = << >>
    /\ s2c = << >>
    /\ stream = "open"
    /\ req_header = None
    /\ running = {}
    /\ mailbox = << >>
    /\ dispatch_log = << >>
    /\ handler_log = << >>
    /\ wire_out = << >>
    /\ result_log = << >>
    /\ wire = << >>
    /\ wire_closed = FALSE
    /\ rpos = 0
    /\ wmsg = None
    /\ rd = "header"
    /\ rd_header = None
    /\ broker = << >>
    /\ op_log = << >>
    /\ write_log = << >>
    /\ dial = None
    /\ pending_lock = 0
    /\ peer_log = << >>

(* ---------------------------------------------------------------- client *)
\* the oneshot receiver `done` of call c exists while _async_call is between
\* creating the channel and returning
ReceiverAlive(c) == pc[c] \in {"read_header", "read_body"}

\* the oneshot sender of call c is still stored in the pending map
SenderAlive(pend, c) == \E i \in DOMAIN pend : pend[i] = c

\* HashMap::insert / HashMap::remove on the pending map
MapInsert(m, k, v) == [i \in DOMAIN m \cup {k} |-> IF i = k THEN v ELSE m[i]]
MapRemove(m, k) == [i \in DOMAIN m \ {k} |-> m[i]]

\* Client::_handle_response: try_recv on the oneshot, then deserialize
HandleResponse(chan, sender_alive) ==
    IF chan = None
    THEN IF sender_alive
         THEN RErr(TransportError("out of date"))
         ELSE RErr(TransportError("canceled"))
    ELSE LET res == chan[1] IN
         IF ~res.is_error
         THEN LET r == Unmarshal("Value", res.body) IN
              IF r.ok THEN ROk(r.v) ELSE RErr(ParseError)
         ELSE LET r == Unmarshal("ErrorMessage", res.body) IN
              IF r.ok THEN RErr(Error_from_err_msg(r.v)) ELSE RErr(ParseError)

\* _async_call returns r: the codec guard is dropped with the future
Return(c, r) ==
    /\ result' = [result EXCEPT ![c] = Some(r)]
    /\ pc' = [pc EXCEPT ![c] = "done"]
    /\ inner_codec' = 0

\* a mutex that is granted whoever holds it
MutexFree_Always(holder) == TRUE

\* codec.lock().await is granted when no call holds the guard
MutexFree(holder) == holder = 0

\* async_call / spawn_task: fetch_add on the counter, then _async_call starts
\* and waits for the codec mutex
AsyncCall(c) ==
    /\ pc[c] = "idle"
    /\ \A d \in Calls : d < c => pc[d] # "idle"
    /\ id' = [id EXCEPT ![c] = count]
    /\ count' = (count + 1) % IdModulus
    /\ pc' = [pc EXCEPT ![c] = "lock"]
    /\ UNCHANGED <<inner_codec, pending, req, hdr, done, result, c2s, s2c, stream>>
    /\ UNCHANGED server_vars
    /\ UNCHANGED reader_vars
    /\ UNCHANGED <<dial, pending_lock, peer_log>>

\* codec.lock().await is granted, the header is built from the call's
\* service_method and id, and write_request succeeds; the sender is inserted
\* into the pending map.  input is the call's <<service_method, args>>.
WriteRequest(c, input) ==
    /\ pc[c] = "lock"
    /\ MutexFree(inner_codec)
    /\ stream = "open"
    /\ inner_codec' = c
    /\ req' = [req EXCEPT ![c] = Some(input)]
    /\ c2s' = c2s \o << Marshal("RequestHeader", RequestHeader(id[c], input[1])),
                        Marshal("Args", input[2]) >>
    /\ pending' = MapInsert(pending, id[c], c)
    /\ pc' = [pc EXCEPT ![c] = "read_header"]
    /\ UNCHANGED <<count, id, hdr, done, result, s2c, stream>>
    /\ UNCHANGED server_vars
    /\ UNCHANGED reader_vars
    /\ UNCHANGED <<dial, pending_lock, peer_log>>

\* a failed write that registers the call's sender all the same
PendingAfterWriteErr_Insert(pend, i, c) == MapInsert(pend, i, c)

\* the pending map after write_request(..).await? has returned Err: the
\* channel and the insert that follow it are not reached
PendingAfterWriteErr(pend, i, c) == pend

\* codec.lock().await is granted and write_request fails: `?` returns the
\* error and the guard is dropped
WriteRequestErr(c) ==
    /\ pc[c] = "lock"
    /\ MutexFree(inner_codec)
    /\ stream # "open"
    /\ Return(c, RErr(IoError("write")))
    /\ pending' = PendingAfterWriteErr(pending, id[c], c)
    /\ UNCHANGED <<count, id, req, hdr, done, c2s, s2c, stream>>
    /\ UNCHANGED server_vars
    /\ UNCHANGED reader_vars
    /\ UNCHANGED <<dial, pending_lock, peer_log>>

\* _read_response up to read_response_header().await
ReadResponseHeader(c) ==
    /\ pc[c] = "read_header"
    /\ \/ /\ s2c # << >>
          /\ s2c' = Tail(s2c)
          /\ LET h == Unmarshal("ResponseHeader", Head(s2c)) IN
             IF h.ok
             THEN /\ hdr' = [hdr EXCEPT ![c] = Some(h.v)]
                  /\ pc' = [pc EXCEPT ![c] = "read_body"]
                  /\ UNCHANGED <<result, inner_codec>>
             ELSE /\ Return(c, RErr(ParseError))
                  /\ UNCHANGED hdr
       \/ \* None: end of stream
          /\ s2c = << >>
          /\ stream = "closed"
          /\ Return(c, HandleResponse(done[c], SenderAlive(pending, c)))
          /\ UNCHANGED <<hdr, s2c>>
       \/ \* Some(Err(e)): the transport reports an error
          /\ s2c = << >>
          /\ stream = "closed"
          /\ Return(c, RErr(IoError("read")))
          /\ UNCHANGED <<hdr, s2c>>
    /\ UNCHANGED <<count, pending, id, req, done, c2s, stream>>
    /\ UNCHANGED server_vars
    /\ UNCHANGED reader_vars
    /\ UNCHANGED <<dial, pending_lock, peer_log>>

\* the Response handed to the call that read it, whatever id it carries
Correlate_ToReader(pend, h, c) == c

\* the sink that a Response with header h is sent into: the sender stored
\* under the header's id
Correlate(pend, h, c) == pend[h.id]

\* _read_response from read_response_body().await on, then _handle_response
ReadResponseBody(c) ==
    /\ pc[c] = "read_body"
    /\ \/ /\ s2c # << >>
          /\ s2c' = Tail(s2c)
          /\ LET h == hdr[c][1]
                 res == [id |-> h.id, is_error |-> h.is_error, body |-> Head(s2c)]
             IN IF h.id \in DOMAIN pending
                THEN LET target == Correlate(pending, h, c) IN
                     /\ pending' = MapRemove(pending, h.id)
                     /\ IF ReceiverAlive(target)
                        THEN /\ done' = [done EXCEPT ![target] = Some(res)]
                             /\ Return(c, HandleResponse(done'[c], SenderAlive(pending', c)))
                        ELSE /\ Return(c, RErr(TransportError("Failed to send")))
                             /\ UNCHANGED done
                ELSE /\ Return(c, HandleResponse(done[c], SenderAlive(pending, c)))
                     /\ UNCHANGED <<pending, done>>
       \/ \* None: end of stream
          /\ s2c = << >>
          /\ stream = "closed"
          /\ Return(c, RErr(IoError("Unexpected EOF reading response body")))
          /\ UNCHANGED <<pending, done, s2c>>
       \/ \* Some(Err(e)): the transport reports an error
          /\ s2c = << >>
          /\ stream = "closed"
          /\ Return(c, RErr(IoError("read")))
          /\ UNCHANGED <<pending, done, s2c>>
    /\ UNCHANGED <<count, id, req, hdr, c2s, stream>>
    /\ UNCHANGED server_vars
    /\ UNCHANGED reader_vars
    /\ UNCHANGED <<dial, pending_lock, peer_log>>

\* the caller drops the future returned by async_call at one of its awaits
DropFuture(c) ==
    /\ pc[c] \in {"lock", "read_header", "read_body"}
    /\ pc' = [pc EXCEPT ![c] = "dropped"]
    /\ inner_codec' = IF inner_codec = c THEN 0 ELSE inner_codec
    /\ UNCHANGED <<count, pending, id, req, hdr, done, result, c2s, s2c, stream>>
    /\ UNCHANGED server_vars
    /\ UNCHANGED reader_vars
    /\ UNCHANGED <<dial, pending_lock, peer_log>>

(* ------------------------------------------------------------- transport *)
\* the connection goes away (the peer closes it, or the transport fails).
\* The server actor stops: its context is dropped with the futures spawned on
\* it and its mailbox, and what the client wrote is no longer handled.  What
\* the server had written is still read; once it is drained a read reports
\* end-of-stream or an I/O error, and a write reports an error.
CloseStream ==
    /\ stream = "open"
    /\ stream' = "closed"
    /\ c2s' = << >>
    /\ req_header' = None
    /\ running' = {}
    /\ mailbox' = << >>
    /\ UNCHANGED <<s2c, dispatch_log, handler_log, wire_out, result_log>>
    /\ UNCHANGED client_vars
    /\ UNCHANGED reader_vars
    /\ UNCHANGED <<dial, pending_lock, peer_log>>

(* ---------------------------------------------------------- server actor *)
\* ctx.binary for each message of out
CtxBinary(out) ==
    /\ s2c' = s2c \o out
    /\ wire_out' = wire_out \o out

\* ws::Message: Ping, Text and Close beside Binary, whose payload is the
\* message itself
Ping == [ty |-> "Ping", val |-> << >>]
Pong == [ty |-> "Pong", val |-> << >>]
Text == [ty |-> "Text", val |-> "text"]
Close == [ty |-> "Close", val |-> << >>]
IsBinary(m) == m.ty \notin {"Ping", "Pong", "Text", "Close"}

\* StreamHandler::handle for Ok(ws::Message::Binary(bin))
StreamHandle ==
    /\ stream = "open"
    /\ c2s # << >>
    /\ IsBinary(Head(c2s))
    /\ c2s' = Tail(c2s)
    /\ LET bin == Head(c2s) IN
       IF req_header = None
       THEN \* no header yet: bin is unmarshalled as a RequestHeader
            LET h == Unmarshal("RequestHeader", bin) IN
            /\ req_header' = IF h.ok THEN Some(h.v) ELSE None
            /\ UNCHANGED <<running, dispatch_log, s2c, wire_out>>
       ELSE \* bin is the body of the header taken out of req_header
            LET header == req_header[1]
                deserializer == bin
                pos == RFind(header.service_method)
                service == ServiceOf(header.service_method, pos)
                method == MethodOf(header.service_method, pos)
            IN
            /\ req_header' = None
            /\ IF pos = 0
               THEN /\ CtxBinary(SendResponseViaContext(header.id, NoSeparatorError))
                    /\ dispatch_log' = Append(dispatch_log,
                          [id |-> header.id, service_method |-> header.service_method,
                           service |-> None, method |-> None,
                           looked_up |-> FALSE, spawned |-> FALSE])
                    /\ UNCHANGED running
               ELSE IF service \notin DOMAIN services
               THEN /\ CtxBinary(SendResponseViaContext(header.id, NoServiceError))
                    /\ dispatch_log' = Append(dispatch_log,
                          [id |-> header.id, service_method |-> header.service_method,
                           service |-> Some(service), method |-> Some(method),
                           looked_up |-> TRUE, spawned |-> FALSE])
                    /\ UNCHANGED running
               ELSE /\ running' = running \cup
                          {[n |-> Len(dispatch_log) + 1, id |-> header.id,
                            service |-> service, method |-> method,
                            deserializer |-> deserializer]}
                    /\ dispatch_log' = Append(dispatch_log,
                          [id |-> header.id, service_method |-> header.service_method,
                           service |-> Some(service), method |-> Some(method),
                           looked_up |-> TRUE, spawned |-> TRUE])
                    /\ UNCHANGED <<s2c, wire_out>>
    /\ UNCHANGED <<mailbox, handler_log, result_log, stream>>
    /\ UNCHANGED client_vars
    /\ UNCHANGED reader_vars
    /\ UNCHANGED <<dial, pending_lock, peer_log>>

\* the future spawned in step [4] completes: call(method, deserializer),
\* map_err, then do_send(HandlerResultMessage) to the actor
HandlerFuture(f) ==
    /\ stream = "open"
    /\ f \in running
    /\ \E r \in ServiceCall(f.service, f.method, f.deserializer) :
          /\ mailbox' = Append(mailbox, [id |-> f.id, res |-> MapHandlerErr(r)])
          /\ handler_log' = Append(handler_log, [n |-> f.n, id |-> f.id, res |-> r])
    /\ running' = running \ {f}
    /\ UNCHANGED <<req_header, dispatch_log, wire_out, result_log, c2s, s2c, stream>>
    /\ UNCHANGED client_vars
    /\ UNCHANGED reader_vars
    /\ UNCHANGED <<dial, pending_lock, peer_log>>

\* an actor that stops when a result could not be sent
ActorAfterSend_StopOnErr(out) == IF out = << >> THEN "stopped" ELSE "running"

\* the match on what send_response_via_context returned: Ok(_) => (), and
\* Err(e) is logged; the actor runs on in both arms
ActorAfterSend(out) == "running"

\* Handler<HandlerResultMessage>::handle
HandleResult ==
    /\ stream = "open"
    /\ mailbox # << >>
    /\ LET msg == Head(mailbox)
           out == SendResponseViaContext(msg.id, msg.res)
       IN /\ CtxBinary(out)
          /\ result_log' = Append(result_log, [id |-> msg.id, res |-> msg.res, out |-> out])
          /\ IF ActorAfterSend(out) = "running"
             THEN /\ mailbox' = Tail(mailbox)
                  /\ UNCHANGED <<req_header, running, c2s, stream>>
             ELSE /\ mailbox' = << >>
                  /\ req_header' = None
                  /\ running' = {}
                  /\ c2s' = << >>
                  /\ stream' = "closed"
    /\ UNCHANGED <<dispatch_log, handler_log>>
    /\ UNCHANGED client_vars
    /\ UNCHANGED reader_vars
    /\ UNCHANGED <<dial, pending_lock, peer_log>>

(* ------------------------------------------------------------------ spec *)
Next ==
    \/ \E c \in Calls : AsyncCall(c)
    \/ \E c \in Calls, input \in Inputs : WriteRequest(c, input)
    \/ \E c \in Calls : WriteRequestErr(c)
    \/ \E c \in Calls : ReadResponseHeader(c)
    \/ \E c \in Calls : ReadResponseBody(c)
    \/ \E c \in Calls : DropFuture(c)
    \/ CloseStream
    \/ StreamHandle
    \/ \E f \in running : HandlerFuture(f)
    \/ HandleResult

Spec == Init /\ [][Next]_vars

\* the scheduling the runtimes give: a call that can take its next step, and
\* an actor that has a message to handle, eventually run.  Nothing obliges
\* the caller to issue or drop a call, nor the connection to go away.
Fairness ==
    /\ \A c \in Calls : WF_vars(\E input \in Inputs : WriteRequest(c, input))
    /\ \A c \in Calls : WF_vars(WriteRequestErr(c))
    /\ \A c \in Calls : WF_vars(ReadResponseHeader(c))
    /\ \A c \in Calls : WF_vars(ReadResponseBody(c))
    /\ WF_vars(StreamHandle)
    /\ WF_vars(\E f \in running : HandlerFuture(f))
    /\ WF_vars(HandleResult)

FairSpec == Init /\ [][Next]_vars /\ Fairness

\* One call, to the method that fails with what its argument names: the path
\* of a handler's error from the `?` in the handler to the caller's result.
ErrNext ==
    \/ AsyncCall(1)
    \/ \E input \in ErrInputs : WriteRequest(1, input)
    \/ WriteRequestErr(1)
    \/ ReadResponseHeader(1)
    \/ ReadResponseBody(1)
    \/ DropFuture(1)
    \/ CloseStream
    \/ StreamHandle
    \/ \E f \in running : HandlerFuture(f)
    \/ HandleResult

ErrSpec == Init /\ [][ErrNext]_vars

(* ---------------------------------------- frame codec and client reader *)
\* the most items the frame transport carries in one behaviour
MaxWire == 4

\* protocol::Header: the variants a client is sent
ResponseH(i, is_ok) == [kind |-> "Response", id |-> i, is_ok |-> is_ok]
AckH(i) == [kind |-> "Ack", id |-> i]

\* protocol::Header: the other variants.  A Duration is its whole seconds
\* and its nanoseconds.
Duration(secs, nanos) == [secs |-> secs, nanos |-> nanos]
RequestH(i, service_method, timeout) ==
    [kind |-> "Request", id |-> i, service_method |-> service_method, timeout |-> timeout]
CancelH(i) == [kind |-> "Cancel", id |-> i]
PublishH(i, topic) == [kind |-> "Publish", id |-> i, topic |-> topic]
SubscribeH(i, topic) == [kind |-> "Subscribe", id |-> i, topic |-> topic]
UnsubscribeH(i, topic) == [kind |-> "Unsubscribe", id |-> i, topic |-> topic]
ProduceH(i, topic, tickets) ==
    [kind |-> "Produce", id |-> i, topic |-> topic, tickets |-> tickets]
ConsumeH(i, topic) == [kind |-> "Consume", id |-> i, topic |-> topic]
ExtH(i, content, marker) ==
    [kind |-> "Ext", id |-> i, content |-> content, marker |-> marker]

\* get_id answering 0 for the tuple variants
Header_get_id_TupleZero(h) ==
    IF h.kind \in {"Cancel", "Ack"} THEN 0 ELSE h.id

\* impl Metadata for Header
Header_get_id(h) ==
    CASE h.kind = "Request"     -> h.id
      [] h.kind = "Response"    -> h.id
      [] h.kind = "Cancel"      -> h.id
      [] h.kind = "Publish"     -> h.id
      [] h.kind = "Subscribe"   -> h.id
      [] h.kind = "Unsubscribe" -> h.id
      [] h.kind = "Ack"         -> h.id
      [] h.kind = "Produce"     -> h.id
      [] h.kind = "Consume"     -> h.id
      [] h.kind = "Ext"         -> h.id

\* the headers and the bodies the peer writes
WireHeaders == {ResponseH(1, TRUE), ResponseH(2, FALSE), AckH(3)}
WireBodies == {[ty |-> "i32", n |-> 5], [ty |-> "tuple", a |-> 1, b |-> 7, c |-> TRUE]}

BoolByte(b) == IF b THEN 1 ELSE 0

\* the characters of the strings a header carries, each with its code
Alphabet == <<"A", "r", "i", "t", "h", ".", "a", "d", "o", "p", "c", "x">>
CharCode(ch) == CHOOSE k \in 1..Len(Alphabet) : Alphabet[k] = ch

\* marshal of a String: its length, then its characters
MarshalString(str) == <<Len(str)>> \o [k \in 1..Len(str) |-> CharCode(str[k])]

\* unmarshal of a String that starts at buf[at]: the string and where the
\* next field starts
UnmarshalString(buf, at) ==
    IF /\ at <= Len(buf)
       /\ buf[at] \in 0..(Len(buf) - at)
       /\ \A k \in (at + 1)..(at + buf[at]) : buf[k] \in 1..Len(Alphabet)
    THEN [ok |-> TRUE, v |-> [k \in 1..buf[at] |-> Alphabet[buf[at + k]]],
          next |-> at + buf[at] + 1]
    ELSE [ok |-> FALSE, err |-> ParseError]

\* marshal of the frame codecs (bincode, cbor, rmp: the frame transport is
\* not built with serde_json): the variant index, then the fields in order
MarshalHeader(h) ==
    CASE h.kind = "Request"     ->
            <<0, h.id>> \o MarshalString(h.service_method)
                        \o <<h.timeout.secs, h.timeout.nanos>>
      [] h.kind = "Response"    -> <<1, h.id, BoolByte(h.is_ok)>>
      [] h.kind = "Cancel"      -> <<2, h.id>>
      [] h.kind = "Publish"     -> <<3, h.id>> \o MarshalString(h.topic)
      [] h.kind = "Subscribe"   -> <<4, h.id>> \o MarshalString(h.topic)
      [] h.kind = "Unsubscribe" -> <<5, h.id>> \o MarshalString(h.topic)
      [] h.kind = "Ack"         -> <<6, h.id>>
      [] h.kind = "Produce"     -> <<7, h.id>> \o MarshalString(h.topic) \o <<h.tickets>>
      [] h.kind = "Consume"     -> <<8, h.id>> \o MarshalString(h.topic)
      [] h.kind = "Ext"         -> <<9, h.id>> \o MarshalString(h.content) \o <<h.marker>>

\* marshal of a body: the fields in order
MarshalBody(v) ==
    CASE v.ty = "i32"   -> <<v.n>>
      [] v.ty = "tuple" -> <<v.a, v.b, BoolByte(v.c)>>

\* unmarshal::<Header>: the bytes are taken as a variant index and fields,
\* whatever they were marshalled from
UnmarshalHeader(buf) ==
    IF Len(buf) < 2 \/ buf[2] \notin 0..(IdModulus - 1)
    THEN RErr(ParseError)
    ELSE LET variant == buf[1]
             i == buf[2]
             str == UnmarshalString(buf, 3)
             \* the string is the last field / one u32 follows it (a u32 and a
             \* u64 are any natural number here)
             last == str.ok /\ Len(buf) = str.next - 1
             then_u32 == /\ str.ok
                         /\ Len(buf) = str.next
                         /\ buf[str.next] >= 0
         IN
         CASE variant = 0 /\ str.ok /\ Len(buf) = str.next + 1
                          /\ buf[str.next] >= 0
                          /\ buf[str.next + 1] \in 0..999999999
                  -> ROk(RequestH(i, str.v, Duration(buf[str.next], buf[str.next + 1])))
           [] variant = 1 /\ Len(buf) = 3 /\ buf[3] \in {0, 1}
                  -> ROk(ResponseH(i, buf[3] = 1))
           [] variant = 2 /\ Len(buf) = 2 -> ROk(CancelH(i))
           [] variant = 3 /\ last -> ROk(PublishH(i, str.v))
           [] variant = 4 /\ last -> ROk(SubscribeH(i, str.v))
           [] variant = 5 /\ last -> ROk(UnsubscribeH(i, str.v))
           [] variant = 6 /\ Len(buf) = 2 -> ROk(AckH(i))
           [] variant = 7 /\ then_u32 -> ROk(ProduceH(i, str.v, buf[str.next]))
           [] variant = 8 /\ last -> ROk(ConsumeH(i, str.v))
           [] variant = 9 /\ then_u32 -> ROk(ExtH(i, str.v, buf[str.next]))
           [] OTHER -> RErr(ParseError)

\* a payload that unmarshals to nothing
Garbage == <<255>>

\* Frame::new(message_id, frame_id, payload_type, payload)
Frame(i, seq, ty, payload) ==
    [item |-> "frame", id |-> i, seq |-> seq, ty |-> ty, payload |-> payload]

\* what read_frame yields when the transport reports an error
IoErrorItem == [item |-> "io_error"]

\* write_header building its frame with id 0
WriteHeaderFrame_Id0(header) == Frame(0, 0, "Header", MarshalHeader(header))

\* CodecWriteHalf::write_header: the frame it hands to write_frame
WriteHeaderFrame(header) ==
    Frame(Header_get_id(header), 0, "Header", MarshalHeader(header))

\* CodecWriteHalf::write_body: the frame it hands to write_frame
WriteBodyFrame(i, body) == Frame(i, 1, "Data", MarshalBody(body))

\* the peer's writer calls write_header(header) for a message with this body
WriteHeader(header, body) ==
    /\ wmsg = None
    /\ ~wire_closed
    /\ Len(wire) < MaxWire
    /\ LET frame == WriteHeaderFrame(header) IN
       /\ wire' = Append(wire, frame)
       /\ write_log' = Append(write_log,
             [op |-> "write_header", header |-> Some(header), id |-> None, frame |-> frame])
    /\ wmsg' = Some([id |-> Header_get_id(header), body |-> body])
    /\ UNCHANGED <<wire_closed, rpos, rd, rd_header, broker, op_log>>
    /\ UNCHANGED <<client_vars, server_vars, actix_vars, dial, pending_lock, peer_log>>

\* the peer's writer calls write_body(&id, body) for the message whose header
\* it wrote
WriteBody ==
    /\ wmsg # None
    /\ ~wire_closed
    /\ Len(wire) < MaxWire
    /\ LET frame == WriteBodyFrame(wmsg[1].id, wmsg[1].body) IN
       /\ wire' = Append(wire, frame)
       /\ write_log' = Append(write_log,
             [op |-> "write_body", header |-> None, id |-> Some(wmsg[1].id), frame |-> frame])
    /\ wmsg' = None
    /\ UNCHANGED <<wire_closed, rpos, rd, rd_header, broker, op_log>>
    /\ UNCHANGED <<client_vars, server_vars, actix_vars, dial, pending_lock, peer_log>>

\* a header frame not yet read arrives with a payload that does not decode
CorruptHeader(k) ==
    /\ k \in (rpos + 1)..Len(wire)
    /\ wire[k].item = "frame"
    /\ wire[k].ty = "Header"
    /\ wire[k].payload # Garbage
    /\ wire' = [wire EXCEPT ![k].payload = Garbage]
    /\ UNCHANGED <<wire_closed, rpos, wmsg, rd, rd_header, broker, op_log, write_log>>
    /\ UNCHANGED <<client_vars, server_vars, actix_vars, dial, pending_lock, peer_log>>

\* the transport reports an I/O error to the next read
TransportFails ==
    /\ ~wire_closed
    /\ Len(wire) < MaxWire
    /\ wire' = Append(wire, IoErrorItem)
    /\ UNCHANGED <<wire_closed, rpos, wmsg, rd, rd_header, broker, op_log, write_log>>
    /\ UNCHANGED <<client_vars, server_vars, actix_vars, dial, pending_lock, peer_log>>

\* the peer closes the connection: end-of-stream follows what was written
ClosePeer ==
    /\ ~wire_closed
    /\ wire_closed' = TRUE
    /\ UNCHANGED <<wire, rpos, wmsg, rd, rd_header, broker, op_log, write_log>>
    /\ UNCHANGED <<client_vars, server_vars, actix_vars, dial, pending_lock, peer_log>>

\* what op returned: Running::Continue(Ok(())), Running::Continue(Err(e)) or
\* Running::Stop, with where in op, the frame taken as the header (0: none)
\* and the header when one was decoded
OpReturn(ret, err, at, hpos, header) ==
    [ret |-> ret, err |-> err, at |-> at, hpos |-> hpos, header |-> header]

\* the broker's receiver has been dropped: broker.send(..) fails from then on
BrokerDropped == [item |-> "Dropped"]
BrokerGone == \E k \in 1..Len(broker) : broker[k] = BrokerDropped

\* broker.send(item).await: the item reaches the broker unless it is gone
BrokerSend(item) == IF BrokerGone THEN broker ELSE Append(broker, item)

\* a reader that stops when the broker is gone
OnSendError_Stop == "Stop"

\* what op returns when broker.send fails: Running::Continue(Err(err.into()))
OnSendError == "Continue"

\* ClientReader::op up to read_header().await and the match on its result
OpReadHeader ==
    /\ rd = "header"
    /\ \/ /\ rpos < Len(wire)
          /\ rpos' = rpos + 1
          /\ LET it == wire[rpos + 1] IN
             IF it.item = "io_error"
             THEN /\ op_log' = Append(op_log,
                        OpReturn("Continue", Some(IoError("read")), "header", 0, None))
                  /\ UNCHANGED <<rd, rd_header>>
             ELSE LET h == UnmarshalHeader(it.payload) IN
                  IF h.ok
                  THEN /\ rd' = "body"
                       /\ rd_header' = Some([header |-> h.v, hpos |-> rpos + 1])
                       /\ UNCHANGED op_log
                  ELSE /\ op_log' = Append(op_log,
                             OpReturn("Continue", Some(h.err), "header", rpos + 1, None))
                       /\ UNCHANGED <<rd, rd_header>>
          /\ UNCHANGED broker
       \/ \* read_header() is None: send Stop to the broker, then Running::Stop
          /\ rpos = Len(wire)
          /\ wire_closed
          /\ broker' = BrokerSend([item |-> "Stop"])
          /\ rd' = "stopped"
          /\ op_log' = Append(op_log, OpReturn("Stop", None, "header", 0, None))
          /\ UNCHANGED <<rpos, rd_header>>
    /\ UNCHANGED <<wire, wire_closed, wmsg, write_log>>
    /\ UNCHANGED <<client_vars, server_vars, actix_vars, dial, pending_lock, peer_log>>

\* the match on is_ok with its arms exchanged
ResponseResult_Swapped(is_ok, de) == IF is_ok THEN RErr(de) ELSE ROk(de)

\* the match on is_ok: Ok(deserializer) or Err(deserializer)
ResponseResult(is_ok, de) == IF is_ok THEN ROk(de) ELSE RErr(de)

\* ClientReader::op from read_body().await on.  A header that is no Response
\* reaches unimplemented!(): the task panics and op returns nothing; the
\* history notes it as "panic".
OpReadBody ==
    /\ rd = "body"
    /\ LET header == rd_header[1].header
           hpos == rd_header[1].hpos
           hid == Some(header)
       IN
       \/ /\ rpos < Len(wire)
          /\ rpos' = rpos + 1
          /\ rd_header' = None
          /\ LET it == wire[rpos + 1] IN
             IF it.item = "io_error"
             THEN /\ op_log' = Append(op_log,
                        OpReturn("Continue", Some(IoError("read")), "body", hpos, hid))
                  /\ rd' = "header"
                  /\ UNCHANGED broker
             ELSE LET deserializer == it.payload IN
                  IF header.kind = "Response"
                  THEN /\ broker' = BrokerSend(
                             [item |-> "Response", id |-> header.id,
                              res |-> ResponseResult(header.is_ok, deserializer)])
                       /\ IF BrokerGone
                          THEN /\ op_log' = Append(op_log,
                                     OpReturn(OnSendError, Some(Internal), "body", hpos, hid))
                               /\ rd' = IF OnSendError = "Continue" THEN "header"
                                                                    ELSE "stopped"
                          ELSE /\ op_log' = Append(op_log,
                                     OpReturn("Continue", None, "body", hpos, hid))
                               /\ rd' = "header"
                  ELSE \* unimplemented!()
                       /\ rd' = "panicked"
                       /\ op_log' = Append(op_log,
                             OpReturn("panic", None, "body", hpos, hid))
                       /\ UNCHANGED broker
       \/ \* read_body() is None: Running::Stop
          /\ rpos = Len(wire)
          /\ wire_closed
          /\ rd' = "stopped"
          /\ rd_header' = None
          /\ op_log' = Append(op_log, OpReturn("Stop", None, "body", hpos, hid))
          /\ UNCHANGED <<rpos, broker>>
    /\ UNCHANGED <<wire, wire_closed, wmsg, write_log>>
    /\ UNCHANGED <<client_vars, server_vars, actix_vars, dial, pending_lock, peer_log>>

ReaderNext ==
    \/ \E header \in WireHeaders, body \in WireBodies : WriteHeader(header, body)
    \/ WriteBody
    \/ \E k \in 1..MaxWire : CorruptHeader(k)
    \/ TransportFails
    \/ ClosePeer
    \/ OpReadHeader
    \/ OpReadBody

\* the frame codec's writer on the peer's side and the ClientReader on this
\* side of one connection
ReaderSpec == Init /\ [][ReaderNext]_vars

\* every variant of Header with the least and the greatest id, and the
\* strings and numbers its other fields carry
ProtoIds == {0, IdModulus - 1}
Topic == <<"t", "o", "p">>
EmptyString == << >>
ProtoHeaders ==
    UNION { { RequestH(i, Ar_add, Duration(10, 0)),
              RequestH(i, EmptyString, Duration(0, 999999999)),
              ResponseH(i, TRUE), ResponseH(i, FALSE),
              CancelH(i),
              PublishH(i, Topic), PublishH(i, EmptyString),
              SubscribeH(i, Topic),
              UnsubscribeH(i, Topic),
              AckH(i),
              ProduceH(i, Topic, 0), ProduceH(i, Topic, 70000),
              ConsumeH(i, Topic),
              ExtH(i, <<"x">>, 1) } : i \in ProtoIds }
ProtoBodies == {[ty |-> "i32", n |-> 5]}

ProtoNext ==
    \/ \E header \in ProtoHeaders, body \in ProtoBodies : WriteHeader(header, body)
    \/ WriteBody
    \/ ClosePeer
    \/ OpReadHeader
    \/ OpReadBody

\* the frame codec's writer, writing headers of every variant over a
\* transport that loses and damages nothing, and the ClientReader
ProtoSpec == Init /\ [][ProtoNext]_vars

(* ---------------------------------------------------------------- claims *)
\* the server wrote a Response for id with this flag and this body payload,
\* header first and body next to it
Emitted(i, is_error, body) ==
    \E k \in 1..(Len(wire_out) - 1) :
        /\ wire_out[k] = Marshal("ResponseHeader", ResponseHeader(i, is_error))
        /\ wire_out[k + 1] = body

\* the position of the Response header for id among the messages written
EmittedAt(i) ==
    {k \in 1..Len(wire_out) :
        /\ wire_out[k].ty = "ResponseHeader"
        /\ wire_out[k].val.id = i}

Outstanding(c) == pc[c] \in {"lock", "read_header", "read_body"}

HasDot(sm) == \E i \in 1..Len(sm) : sm[i] = Dot

\* sm is <service> . <method> with no '.' in <method>
SplitsInto(sm, service, method) ==
    /\ sm = service \o <<Dot>> \o method
    /\ \A j \in 1..Len(method) : method[j] # Dot

\* the service a service_method names: what stands before its last '.'
NamedService(sm) ==
    {SubSeq(sm, 1, i - 1) :
        i \in {i \in 1..Len(sm) : sm[i] = Dot /\ \A j \in (i + 1)..Len(sm) : sm[j] # Dot}}

LogIndex == 1..Len(dispatch_log)
HandlerIndex == 1..Len(handler_log)
ResultIndex == 1..Len(result_log)

\* the kinds of error ErrorMessage has a variant for
HasWireForm(err) ==
    err.e \in {"InvalidArgument", "ServiceNotFound", "MethodNotFound", "ExecutionError"}

\* the error Response for id carrying err, as two binary messages
ErrorResponse(i, err) ==
    << Marshal("ResponseHeader", ResponseHeader(i, TRUE)),
       Marshal("ErrorMessage", Msg(err.e, err.s)) >>

\* the string form of each value a handler fails with
Shown(u) ==
    CASE u = [ty |-> "anyhow", str |-> "error"] -> "error"
      [] u = [ty |-> "String", str |-> "oops"]  -> "oops"
      [] u = [ty |-> "str", str |-> "bad"]      -> "bad"
      [] u = [ty |-> "bool", b |-> TRUE]        -> "true"
      [] u = [ty |-> "bool", b |-> FALSE]       -> "false"
      [] u = [ty |-> "int", n |-> 7]            -> "7"
      [] u = [ty |-> "int", n |-> 0 - 12]       -> "-12"
      [] u = [ty |-> "int", n |-> 300]          -> "300"

\* C1: whatever the order the Responses arrive in, a result is only ever put
\* into the oneshot of the call whose id the Response header carries, it is the
\* body the server wrote for that id, and a call that returns a decoded
\* result returns the one delivered under its own id.
C1_ResponseReachesOwnWaiter ==
    \A c \in Calls :
        /\ done[c] # None =>
              /\ done[c][1].id = id[c]
              /\ Emitted(id[c], done[c][1].is_error, done[c][1].body)
        /\ (result[c] # None /\ result[c][1].ok) =>
              /\ done[c] # None
              /\ ~done[c][1].is_error
              /\ result[c][1].v = done[c][1].body.val

\* two requests were in flight together (the first call was dropped after its
\* Request was written), the server answered the second before the first, and
\* the second call got its own Response
C1_Witness ==
    \E c, d \in Calls :
        /\ c < d
        /\ pc[c] = "dropped"
        /\ pc[d] = "done"
        /\ done[d] # None
        /\ result[d][1].ok
        /\ EmittedAt(id[c]) # {}
        /\ EmittedAt(id[d]) # {}
        /\ \A k \in EmittedAt(id[d]), j \in EmittedAt(id[c]) : k < j

\* C2: every issued call eventually resolves (or is dropped by its caller),
\* also when the server emits no Response for it.
C2_EveryCallResolves ==
    \A c \in Calls : (pc[c] = "lock") ~> (pc[c] \in {"done", "dropped"})

\* C3: a call that has fetched its id is never kept from writing its Request
\* by another call that is waiting for its Response.
C3_SecondRequestNotBlocked ==
    \A c, d \in Calls :
        ~ ( /\ c # d
            /\ stream = "open"
            /\ inner_codec = c
            /\ pc[c] \in {"read_header", "read_body"}
            /\ pc[d] = "lock" )

\* C4: a Response that arrives for a dropped call is discarded: no other call
\* returns on reading it.
C4_LateResponseDiscarded ==
    \A c, d \in Calls :
        ( /\ c # d
          /\ pc[d] = "dropped"
          /\ hdr[c] # None
          /\ hdr[c][1].id = id[d]
          /\ id[c] # id[d] )
        => result[c] = None

\* C5: the pending map holds only ids of calls that are outstanding.
C5_PendingOnlyOutstanding ==
    \A i \in DOMAIN pending : Outstanding(pending[i])

\* C6: when a handler returns Ok(v), the server writes a success Response with
\* the request's id and v (once the actor has handled the result, which it
\* does unless the connection goes away first), and the call to which that
\* Response is delivered returns Ok(v).
C6_OkResultRoundTrip ==
    \A n \in HandlerIndex :
        LET e == handler_log[n] IN
        e.res.ok =>
            /\ \/ Emitted(e.id, FALSE, Marshal("Value", e.res.v))
               \/ \E j \in 1..Len(mailbox) : mailbox[j] = [id |-> e.id, res |-> e.res]
               \/ stream = "closed"
            /\ \A c \in Calls :
                  (id[c] = e.id /\ done[c] # None /\ result[c] # None)
                  => result[c] = Some(ROk(e.res.v))

\* Echo: "Ar.add" with (2, 3) returned Ok(5)
C6_Witness ==
    \E c \in Calls :
        /\ req[c] = Some(<<Ar_add, PairArgs>>)
        /\ result[c] = Some(ROk(5))
        /\ \E n \in HandlerIndex : handler_log[n] = [n |-> handler_log[n].n, id |-> id[c], res |-> ROk(5)]

\* C7: a Request whose service name (the part before the last '.') is not
\* registered is answered with an error Response carrying ServiceNotFound
\* for its id, and no handler is invoked for it.
C7_ServiceNotFound ==
    \A k \in LogIndex :
        LET d == dispatch_log[k] IN
        ( /\ HasDot(d.service_method)
          /\ NamedService(d.service_method) \cap DOMAIN services = {} )
        => /\ Emitted(d.id, TRUE, Marshal("ErrorMessage", Msg("ServiceNotFound", "")))
           /\ Cardinality(EmittedAt(d.id)) = 1
           /\ ~d.spawned
           /\ \A f \in running : f.n # k
           /\ \A n \in HandlerIndex : handler_log[n].n # k

C7_Witness ==
    \E k \in LogIndex, c \in Calls :
        /\ dispatch_log[k].service_method = ar_add
        /\ dispatch_log[k].id = id[c]
        /\ result[c] = Some(RErr(ServiceNotFound))

\* C8: a Request whose service_method has no '.' is answered with an error
\* Response carrying MethodNotFound for its id, without a service lookup and
\* without a handler.
C8_NoSeparatorMethodNotFound ==
    \A k \in LogIndex :
        LET d == dispatch_log[k] IN
        ~HasDot(d.service_method)
        => /\ Emitted(d.id, TRUE, Marshal("ErrorMessage", Msg("MethodNotFound", "")))
           /\ Cardinality(EmittedAt(d.id)) = 1
           /\ ~d.looked_up
           /\ ~d.spawned
           /\ \A f \in running : f.n # k
           /\ \A n \in HandlerIndex : handler_log[n].n # k

C8_Witness ==
    \E k \in LogIndex, c \in Calls :
        /\ dispatch_log[k].service_method = noseparator
        /\ dispatch_log[k].id = id[c]
        /\ result[c] = Some(RErr(MethodNotFound))

\* C9: the service looked up is everything before the last '.', the method
\* handed to the handler everything after it, and the service is matched
\* exactly (case-sensitively): a handler is spawned iff that exact name is
\* registered.
C9_SplitAtLastDot ==
    /\ \A k \in LogIndex :
          LET d == dispatch_log[k] IN
          HasDot(d.service_method) =>
              /\ d.looked_up
              /\ SplitsInto(d.service_method, d.service[1], d.method[1])
              /\ d.spawned = (d.service[1] \in DOMAIN services)
    /\ \A f \in running :
          /\ dispatch_log[f.n].service = Some(f.service)
          /\ dispatch_log[f.n].method = Some(f.method)

\* "a.b.c" reached the handler of service "a.b" as method "c", and "ar.add"
\* did not reach the handler of "Ar"
C9_Witness ==
    /\ \E f \in running :
          /\ dispatch_log[f.n].service_method = a_b_c
          /\ f.service = SvcAB
          /\ f.method = MC
    /\ \E k \in LogIndex :
          /\ dispatch_log[k].service_method = ar_add
          /\ ~dispatch_log[k].spawned

\* C10: when a handler fails with ParseError, what goes to the actor and
\* (unless the connection goes away first) onto the wire for that request is
\* InvalidArgument; no Response carries ParseError.
C10_ParseErrorBecomesInvalidArgument ==
    /\ \A n \in HandlerIndex :
          LET e == handler_log[n] IN
          (~e.res.ok /\ e.res.err = ParseError) =>
              \/ \E j \in 1..Len(mailbox) :
                    mailbox[j] = [id |-> e.id, res |-> RErr(InvalidArgument)]
              \/ Emitted(e.id, TRUE, Marshal("ErrorMessage", Msg("InvalidArgument", "")))
              \/ stream = "closed"
    /\ \A k \in 1..Len(wire_out) :
          wire_out[k].ty = "ErrorMessage" => wire_out[k].val.m # "ParseError"

C10_Witness ==
    \E n \in HandlerIndex, c \in Calls :
        /\ handler_log[n].res = RErr(ParseError)
        /\ handler_log[n].id = id[c]
        /\ Emitted(id[c], TRUE, Marshal("ErrorMessage", Msg("InvalidArgument", "")))
        /\ result[c] = Some(RErr(InvalidArgument))

\* C11: from_err rejects Canceled and Timeout, whatever id they hold; a
\* result with such an error is handled without anything being written, no
\* Response header carries the id of that request and no error body on the
\* wire names Canceled or Timeout.
C11_CanceledTimeoutNeverOnWire ==
    /\ \A o \in {None, Some(0), Some(1)} :
          /\ ErrorMessage_from_err(Canceled(o)) = RErr(Canceled(o))
          /\ ErrorMessage_from_err(Timeout(o)) = RErr(Timeout(o))
    /\ \A k \in ResultIndex :
          LET r == result_log[k] IN
          (~r.res.ok /\ r.res.err.e \in {"Canceled", "Timeout"}) =>
              /\ r.out = << >>
              /\ EmittedAt(r.id) = {}
    /\ \A k \in 1..Len(wire_out) :
          wire_out[k].ty = "ErrorMessage" =>
              /\ wire_out[k].val.m \notin {"Canceled", "Timeout"}
              /\ wire_out[k].val.s \notin {"Request is canceled", "Request reached timeout"}

\* the handler failed with Canceled(Some(0)); the actor handled that result
\* and wrote nothing, and the caller is still waiting
C11_Witness ==
    \E k \in ResultIndex :
        /\ result_log[k].res = RErr(Canceled(Some(0)))
        /\ result_log[k].out = << >>
        /\ wire_out = << >>
        /\ pc[1] = "read_header"

C13_InternalNotFatal ==
    /\ [][ ( /\ Len(result_log') = Len(result_log) + 1
             /\ result_log'[Len(result_log')].res = RErr(Internal) )
           => ( /\ stream' = "open"
                /\ c2s' = c2s
                /\ req_header' = req_header
                /\ running' = running
                /\ mailbox' = Tail(mailbox) ) ]_vars
    /\ [](\A k, j \in ResultIndex :
            ( /\ k < j
              /\ result_log[k].res = RErr(Internal)
              /\ result_log[j].res.ok \/ HasWireForm(result_log[j].res.err) )
            => /\ result_log[j].out # << >>
               /\ Cardinality(EmittedAt(result_log[j].id)) = 1
               /\ \E d \in LogIndex : dispatch_log[d].id = result_log[j].id)

\* a handler failed with Internal, and the request made after it on the same
\* connection was dispatched, answered, and its caller got the answer
C13_Witness ==
    \E k, j \in ResultIndex, c \in Calls :
        /\ k < j
        /\ result_log[k].res = RErr(Internal)
        /\ result_log[k].out = << >>
        /\ result_log[j].id = id[c]
        /\ result_log[j].res.ok
        /\ done[c] # None
        /\ result[c] = Some(ROk(result_log[j].res.v))

\* C14: every Response header written carries the id of a Request the actor
\* has taken from the connection; no Request has more than one Response; and
\* a Request whose result the actor handled has exactly one when the result
\* is Ok or an error with a wire form (a handler's result is handled unless
\* the connection goes away first).
C14_OneResponsePerRequest ==
    /\ \A k \in 1..Len(wire_out) :
          wire_out[k].ty = "ResponseHeader" =>
              \E d \in LogIndex : dispatch_log[d].id = wire_out[k].val.id
    /\ \A d \in LogIndex : Cardinality(EmittedAt(dispatch_log[d].id)) <= 1
    /\ \A k \in ResultIndex :
          LET r == result_log[k] IN
          (r.res.ok \/ HasWireForm(r.res.err)) => Cardinality(EmittedAt(r.id)) = 1
    /\ \A n \in HandlerIndex :
          LET e == handler_log[n] IN
          \/ \E j \in 1..Len(mailbox) : mailbox[j].id = e.id
          \/ \E k \in ResultIndex : result_log[k].id = e.id
          \/ stream = "closed"

\* two Requests were received, the handler of each completed, and each has its
\* one Response
C14_Witness ==
    /\ Len(dispatch_log) = 2
    /\ Len(result_log) = 2
    /\ dispatch_log[1].id # dispatch_log[2].id
    /\ \A d \in LogIndex : Cardinality(EmittedAt(dispatch_log[d].id)) = 1

OpIndex == 1..Len(op_log)
WriteIndex == 1..Len(write_log)

\* C15: the frame write_header writes has seq 0, type Header and the id
\* get_id gives for the header; the frame write_body writes has seq 1, type
\* Data and the id it was passed; the frames of one message follow each other,
\* header then body, with the same id.
C15_TwoFramesSameId ==
    \A k \in WriteIndex :
        LET e == write_log[k] IN
        /\ e.op = "write_header" =>
              /\ e.frame.seq = 0
              /\ e.frame.ty = "Header"
              /\ e.frame.id = e.header[1].id
              /\ (k + 1 \in WriteIndex) =>
                    /\ write_log[k + 1].op = "write_body"
                    /\ write_log[k + 1].frame.id = e.frame.id
        /\ e.op = "write_body" =>
              /\ e.frame.seq = 1
              /\ e.frame.ty = "Data"
              /\ e.frame.id = e.id[1]
              /\ k > 1
              /\ write_log[k - 1].op = "write_header"

\* the message Response{id: 2, is_ok: false} was written: two frames with id 2
C15_Witness ==
    \E k \in WriteIndex :
        /\ k + 1 \in WriteIndex
        /\ write_log[k].header = Some(ResponseH(2, FALSE))
        /\ write_log[k].frame.id = 2
        /\ write_log[k + 1].frame.id = 2
        /\ write_log[k + 1].frame.seq = 1

\* C16: a reader that stopped on end-of-stream, whether it was waiting for a
\* header or for a body, has sent Stop to the broker as its last item.
C16_StopSentOnEof ==
    \A k \in OpIndex :
        op_log[k].ret = "Stop" =>
            /\ broker # << >>
            /\ broker[Len(broker)] = [item |-> "Stop"]

\* C17: after a header frame failed to decode, the frame the reader takes for
\* the next header is not the Data frame of that same message, and every
\* Response handed to the broker is one the peer wrote: its id and its body.
C17_HeaderErrorKeepsFraming ==
    /\ \A k \in OpIndex :
          LET e == op_log[k] IN
          ( /\ e.at = "header"
            /\ e.err = Some(ParseError)
            /\ wire[e.hpos].ty = "Header"
            /\ k + 1 \in OpIndex
            /\ op_log[k + 1].hpos > 0 )
          => ~ ( /\ wire[op_log[k + 1].hpos].ty = "Data"
                 /\ wire[op_log[k + 1].hpos].id = wire[e.hpos].id )
    /\ \A b \in 1..Len(broker) :
          broker[b].item = "Response" =>
              \E k \in WriteIndex :
                  /\ k + 1 \in WriteIndex
                  /\ write_log[k].header =
                        Some(ResponseH(broker[b].id, broker[b].res.ok))
                  /\ write_log[k + 1].frame.payload =
                        (IF broker[b].res.ok THEN broker[b].res.v ELSE broker[b].res.err)

\* C18: when op decoded a header and then could not read the body, the broker
\* is sent an item for the id of that header.
C18_BodyErrorFailsCall ==
    \A k \in OpIndex :
        LET e == op_log[k] IN
        (e.at = "body" /\ e.err # None /\ e.header[1].kind = "Response") =>
            \E b \in 1..Len(broker) :
                /\ broker[b].item # "Stop"
                /\ broker[b].id = e.header[1].id

\* C19: once a read has reported an I/O error the reader stops: op returns
\* Running::Stop for it.
C19_IoErrorStopsReader ==
    \A k \in OpIndex :
        (op_log[k].err # None /\ op_log[k].err[1].e = "IoError") => op_log[k].ret = "Stop"

\* C20: a call that is waiting for its Response when the connection reaches
\* end-of-stream returns Canceled(None).  (A read that reports an I/O error
\* instead of end-of-stream is left aside.)
C20_EofCancelsOutstanding ==
    [][ \A c \in Calls :
            ( /\ pc[c] \in {"read_header", "read_body"}
              /\ pc'[c] = "done"
              /\ s2c = << >>
              /\ stream = "closed" )
            => result'[c] \in { Some(RErr(Canceled(None))), Some(RErr(IoError("read"))) }
      ]_vars

(* ------------------------------------------------- claims C21 .. C30 *)
\* the ids of the Request headers the client has written, in the order it
\* wrote them: those the actor has dispatched, the one whose body it waits
\* for, and those it has not taken yet
HeaderIds(msgs) ==
    LET hs == SelectSeq(msgs, LAMBDA m : m.ty = "RequestHeader")
    IN [k \in 1..Len(hs) |-> hs[k].val.id]

WrittenIds ==
    [k \in LogIndex |-> dispatch_log[k].id]
        \o (IF req_header = None THEN << >> ELSE << req_header[1].id >>)
        \o HeaderIds(c2s)

\* C21: the ids of the Requests the client writes increase in the order they
\* are written (no wrap of the counter happens within NumCalls calls).
C21_IdsIncreaseInWriteOrder ==
    \A j, k \in 1..Len(WrittenIds) : j < k => WrittenIds[j] < WrittenIds[k]

(* the counter one lap later.  Call 1 took its id with fetch_add and has not
   been granted the codec mutex since (for spawn_task: its task has not been
   polled since); 2^16 - 1 later calls took the ids that follow and have
   returned, so that the counter stands at call 1's id again.  Nothing of the
   calls in between is left on the connection. *)
WrapInit ==
    /\ count = IdModulus - 1
    /\ inner_codec = 0
    /\ pending = << >>
    /\ pc = [c \in Calls |-> IF c = 1 THEN "lock" ELSE "idle"]
    /\ id = [c \in Calls |-> IF c = 1 THEN IdModulus - 1 ELSE 0]
    /\ req = [c \in Calls |-> None]
    /\ hdr = [c \in Calls |-> None]
    /\ done = [c \in Calls |-> None]
    /\ result = [c \in Calls |-> None]
    /\ c2s = << >>
    /\ s2c = << >>
    /\ stream = "open"
    /\ req_header = None
    /\ running = {}
    /\ mailbox = << >>
    /\ dispatch_log = << >>
    /\ handler_log = << >>
    /\ wire_out = << >>
    /\ result_log = << >>
    /\ wire = << >>
    /\ wire_closed = FALSE
    /\ rpos = 0
    /\ wmsg = None
    /\ rd = "header"
    /\ rd_header = None
    /\ broker = << >>
    /\ op_log = << >>
    /\ write_log = << >>
    /\ dial = None
    /\ pending_lock = 0
    /\ peer_log = << >>

\* the calls of WrapSpec all ask for Arith.add
WrapInputs == {<<Ar_add, PairArgs>>}

WrapNext ==
    \/ \E c \in Calls : AsyncCall(c)
    \/ \E c \in Calls, input \in WrapInputs : WriteRequest(c, input)
    \/ \E c \in Calls : WriteRequestErr(c)
    \/ \E c \in Calls : ReadResponseHeader(c)
    \/ \E c \in Calls : ReadResponseBody(c)
    \/ \E c \in Calls : DropFuture(c)
    \/ CloseStream
    \/ StreamHandle
    \/ \E f \in running : HandlerFuture(f)
    \/ HandleResult

WrapSpec == WrapInit /\ [][WrapNext]_vars

\* C22: ids come from a 16-bit counter that goes up by one per call and wraps
\* modulo 2^16, and no two outstanding calls of one connection hold the same
\* id, also after the counter has wrapped while an older call is outstanding.
C22_OutstandingIdsDistinct ==
    /\ count \in 0..(IdModulus - 1)
    /\ \A c, d \in Calls :
          (c # d /\ Outstanding(c) /\ Outstanding(d)) => id[c] # id[d]

\* C23: a call whose deadline expires before its Response is processed is
\* taken out of the pending map and a Cancel is written to the server.
\* _async_call has no deadline of its own: a wait for a Response ends early
\* only when the caller drops the future, as a timeout around the call does.
C23_DeadlineCancelsCall ==
    [][ \A c \in Calls :
            ( /\ pc[c] \in {"read_header", "read_body"}
              /\ stream = "open"
              /\ pc'[c] = "dropped" )
            => /\ id[c] \notin DOMAIN pending'
               /\ c2s' # c2s
      ]_vars

MaxSegs == 3

\* DEFAULT_RPC_PATH
DEFAULT_RPC_PATH == "_rpc"

\* the addresses: "http://host", then "/segment" for each segment, then "/"
\* when slash is set
SegNames == {"rpc", "api", "v1"}
Addr(segs, slash) == [scheme |-> "http", host |-> "host", segs |-> segs, slash |-> slash]
Addrs ==
    {Addr(segs, slash) :
        segs \in UNION {[1..n -> SegNames] : n \in 0..MaxSegs}, slash \in BOOLEAN}

\* url::Url::parse: the path of an http Url is what stands between the '/'
\* of the address, so it ends with an empty segment when the address ends
\* with '/', and it is "/" when the address has no path
Url_parse(addr) ==
    [scheme |-> addr.scheme, host |-> addr.host,
     path |-> IF addr.slash \/ addr.segs = << >>
              THEN addr.segs \o <<"">>
              ELSE addr.segs]

\* url::Url::join with a relative path of one segment: the reference is
\* resolved against the base, taking the place of its last segment
Url_join(url, reference) ==
    [url EXCEPT !.path = SubSeq(url.path, 1, Len(url.path) - 1) \o <<reference>>]

\* url::Url::set_scheme
Url_set_scheme(url, scheme) == [url EXCEPT !.scheme = scheme]

\* Client::dial_http up to _dial_websocket(url).await
DialHttp(addr) ==
    /\ dial = None
    /\ dial' = Some([addr |-> addr,
                     url |-> Url_set_scheme(Url_join(Url_parse(addr), DEFAULT_RPC_PATH), "ws"),
                     state |-> "connecting"])
    /\ UNCHANGED <<client_vars, server_vars, actix_vars, pending_lock, peer_log>>
    /\ UNCHANGED reader_vars

\* Client::_dial_websocket: connect_async(&url) succeeds or fails
DialWebsocket ==
    /\ dial # None
    /\ dial[1].state = "connecting"
    /\ \E st \in {"connected", "failed"} : dial' = Some([dial[1] EXCEPT !.state = st])
    /\ UNCHANGED <<client_vars, server_vars, actix_vars, pending_lock, peer_log>>
    /\ UNCHANGED reader_vars

DialNext ==
    \/ \E addr \in Addrs : DialHttp(addr)
    \/ DialWebsocket

DialSpec == Init /\ [][DialNext]_vars

\* C25: dial_http connects to the base address with DEFAULT_RPC_PATH put
\* after it, whether the base has a path or not and ends with '/' or not,
\* with the scheme changed to ws: every path segment of the base is kept.
C25_DialHttpKeepsBasePath ==
    dial # None =>
        /\ dial[1].url.scheme = "ws"
        /\ dial[1].url.host = dial[1].addr.host
        /\ dial[1].url.path = dial[1].addr.segs \o <<DEFAULT_RPC_PATH>>

(* ------------------------------------------ write_request, frame by frame *)
\* the arguments of call c: each call's body differs from the others'
WriteInputs(c) == {<<Ar_add, <<c, c>>>>, <<a_b_c, <<c>>>>}

\* codec.lock().await is granted and write_request writes the header
WriteRequestHeader(c, input) ==
    /\ pc[c] = "lock"
    /\ MutexFree(inner_codec)
    /\ stream = "open"
    /\ inner_codec' = c
    /\ req' = [req EXCEPT ![c] = Some(input)]
    /\ c2s' = Append(c2s, Marshal("RequestHeader", RequestHeader(id[c], input[1])))
    /\ pc' = [pc EXCEPT ![c] = "write_body"]
    /\ UNCHANGED <<count, pending, id, hdr, done, result, s2c, stream>>
    /\ UNCHANGED server_vars
    /\ UNCHANGED reader_vars
    /\ UNCHANGED <<dial, pending_lock, peer_log>>

\* write_request writes the body and the sender is inserted into the pending
\* map; when the connection is gone the write fails and `?` returns the error
WriteRequestBody(c) ==
    /\ pc[c] = "write_body"
    /\ IF stream = "open"
       THEN /\ c2s' = Append(c2s, Marshal("Args", req[c][1][2]))
            /\ pending' = MapInsert(pending, id[c], c)
            /\ pc' = [pc EXCEPT ![c] = "read_header"]
            /\ UNCHANGED <<inner_codec, result>>
       ELSE /\ Return(c, RErr(IoError("write")))
            /\ pending' = PendingAfterWriteErr(pending, id[c], c)
            /\ UNCHANGED c2s
    /\ UNCHANGED <<count, id, req, hdr, done, s2c, stream>>
    /\ UNCHANGED server_vars
    /\ UNCHANGED reader_vars
    /\ UNCHANGED <<dial, pending_lock, peer_log>>

WriteNext ==
    \/ \E c \in Calls : AsyncCall(c)
    \/ \E c \in Calls : \E input \in WriteInputs(c) : WriteRequestHeader(c, input)
    \/ \E c \in Calls : WriteRequestBody(c)
    \/ \E c \in Calls : WriteRequestErr(c)
    \/ \E c \in Calls : ReadResponseHeader(c)
    \/ \E c \in Calls : DropFuture(c)
    \/ CloseStream

\* the calls of one client writing their Requests, header and body as two
\* writes, to a server that takes nothing yet
WriteSpec == Init /\ [][WriteNext]_vars

ResponseOps ==
    SelectSeq(op_log, LAMBDA e :
        /\ e.at = "body"
        /\ e.err = None
        /\ e.ret # "Stop"
        /\ e.header[1].kind = "Response")
BrokerResponses == SelectSeq(broker, LAMBDA b : b.item = "Response")

\* C27: for every Response header the reader reads together with its body it
\* forwards one ClientBrokerItem::Response(id, res) to the broker, in the
\* order read, where res is Ok(body) when is_ok is set and Err(body) when it
\* is not.
C27_ResponseForwardedOnce ==
    /\ Len(BrokerResponses) = Len(ResponseOps)
    /\ \A k \in 1..Len(ResponseOps) :
          LET header == ResponseOps[k].header[1]
              body == wire[ResponseOps[k].hpos + 1].payload
          IN /\ ResponseOps[k].ret = "Continue"
             /\ BrokerResponses[k].id = header.id
             /\ header.is_ok => BrokerResponses[k].res = ROk(body)
             /\ ~header.is_ok => BrokerResponses[k].res = RErr(body)

\* a Response with is_ok set and one without have been read and forwarded,
\* in that order
C27_Witness ==
    /\ Len(BrokerResponses) = 2
    /\ BrokerResponses[1].id = 1
    /\ BrokerResponses[1].res.ok
    /\ BrokerResponses[2].id = 2
    /\ ~BrokerResponses[2].res.ok
    /\ Len(ResponseOps) = 2

\* C28: when the reader reads a Publish header with its body it forwards a
\* Publication with the header's topic and id and that body to the broker,
\* and goes on.
C28_PublishForwarded ==
    \A k \in OpIndex :
        ( /\ op_log[k].at = "body"
          /\ op_log[k].ret # "Stop"
          /\ op_log[k].err = None
          /\ op_log[k].header[1].kind = "Publish" )
        => /\ op_log[k].ret = "Continue"
           /\ \E j \in 1..Len(broker) :
                 broker[j] = [item |-> "Publication",
                              topic |-> op_log[k].header[1].topic,
                              id |-> op_log[k].header[1].id,
                              body |-> wire[op_log[k].hpos + 1].payload]

\* C29: a well-formed message whose header is no Response (Request, Cancel,
\* Publish, Subscribe, Unsubscribe, Ack, Produce, Consume, Ext) never
\* crashes the reader: it goes on reading.
C29_ReaderSurvivesOtherHeaders ==
    rd # "panicked"

\* the values of ErrorMessage and of Error the conversions are applied to
ErrorMessages ==
    {Msg("InvalidArgument", ""), Msg("ServiceNotFound", ""), Msg("MethodNotFound", "")}
        \cup {Msg("ExecutionError", s) : s \in {"", "e", "oops", "Request is canceled"}}
Errors ==
    {h.err : h \in HandlerErrors} \cup {IntoError(u) : u \in UserErrors}
        \cup {Error_from_err_msg(m) : m \in ErrorMessages}

\* from_err and from_err_msg are inverse to each other on err
InverseOn(err) ==
    LET m == ErrorMessage_from_err(err) IN
    /\ m.ok <=> err.e \in {"InvalidArgument", "ServiceNotFound", "MethodNotFound",
                           "ExecutionError"}
    /\ m.ok => Error_from_err_msg(m.v) = err
    /\ ~m.ok => m.err = err

\* C30: from_err(from_err_msg(m)) = Ok(m) for every ErrorMessage m; from_err(e)
\* is Ok exactly for InvalidArgument, ServiceNotFound, MethodNotFound and
\* ExecutionError, and from_err_msg of it is e again.  So it is for the
\* errors the server converts and the messages the client converts back.
C30_ErrorConversionsInverse ==
    /\ \A m \in ErrorMessages : ErrorMessage_from_err(Error_from_err_msg(m)) = ROk(m)
    /\ \A e \in Errors : InverseOn(e)
    /\ \A k \in ResultIndex : ~result_log[k].res.ok => InverseOn(result_log[k].res.err)
    /\ \A c \in Calls :
          ( /\ result[c] # None
            /\ done[c] # None
            /\ done[c][1].is_error
            /\ done[c][1].body.ty = "ErrorMessage" )
          => /\ result[c][1] = RErr(Error_from_err_msg(done[c][1].body.val))
             /\ ErrorMessage_from_err(result[c][1].err) = ROk(done[c][1].body.val)
             /\ \E k \in ResultIndex :
                   /\ result_log[k].id = done[c][1].id
                   /\ result_log[k].res = result[c][1]

\* the server has converted ExecutionError("oops") into its message, and the
\* call has got the same ExecutionError back from that message
C30_Witness ==
    /\ result[1] = Some(RErr(ExecutionError("oops")))
    /\ done[1] # None
    /\ done[1][1].body = Marshal("ErrorMessage", Msg("ExecutionError", "oops"))
    /\ \E k \in ResultIndex : result_log[k].res = RErr(ExecutionError("oops"))

(* ------------------------------------------------- claims C31 .. C38 *)
\* call c has written its Request and no call has read a Response header
\* with its id
Unanswered(c) ==
    /\ req[c] # None
    /\ \A d \in Calls : hdr[d] = None \/ hdr[d][1].id # id[c]

\* the calls between writing their Request and returning
Waiting == {c \in Calls : pc[c] \in {"read_header", "read_body"}}

\* C31 as stated: the codec lock is held from before a call's Request is
\* written until the call returns, at most one call is between writing its
\* Request and returning, and so at most one Request of the client is
\* unanswered on the wire.
C31_OneRequestUnanswered ==
    /\ \A c \in Waiting : inner_codec = c
    /\ Cardinality(Waiting) <= 1
    /\ stream = "open" => Cardinality({c \in Calls : Unanswered(c)}) <= 1

\* C31 amended: the codec lock is held from before a call's Request is
\* written until the call returns or is dropped, so at most one call is
\* between writing its Request and returning.
C31_OneCallWaiting ==
    /\ \A c \in Waiting : inner_codec = c
    /\ Cardinality(Waiting) <= 1

\* a call waits for its Response while the other, its id fetched, waits for
\* the codec
C31_Witness ==
    \E c, d \in Calls :
        /\ pc[c] = "read_header"
        /\ req[c] # None
        /\ pc[d] = "lock"
        /\ inner_codec = c

(* ------------------------------------- the two mutexes of the client *)
\* a client whose calls ask for the pending map before the codec as well
PendingLockPoints_BeforeCodec == {"lock", "insert", "deliver"}

\* where in _async_call a call asks for pending.lock(): before the insert,
\* and in _read_response once header and body are read
PendingLockPoints == {"insert", "deliver"}

\* the calls of LockSpec all ask for Arith.add
LockInputs == {<<Ar_add, PairArgs>>}

\* codec.lock().await is granted and write_request succeeds; the call goes
\* on to pending.lock()
LockCodecAndWrite(c, input) ==
    /\ pc[c] = "lock"
    /\ MutexFree(inner_codec)
    /\ stream = "open"
    /\ inner_codec' = c
    /\ req' = [req EXCEPT ![c] = Some(input)]
    /\ c2s' = c2s \o << Marshal("RequestHeader", RequestHeader(id[c], input[1])),
                        Marshal("Args", input[2]) >>
    /\ pc' = [pc EXCEPT ![c] = "insert"]
    /\ UNCHANGED <<count, pending, id, hdr, done, result, s2c, stream>>
    /\ UNCHANGED server_vars
    /\ UNCHANGED reader_vars
    /\ UNCHANGED <<dial, pending_lock, peer_log>>

\* pending.lock().await is granted
LockPending(c) ==
    /\ pc[c] \in PendingLockPoints
    /\ pending_lock = 0
    /\ pending_lock' = c
    /\ UNCHANGED <<client_vars, server_vars, actix_vars>>
    /\ UNCHANGED reader_vars
    /\ UNCHANGED <<dial, peer_log>>

\* _pending.insert(id, done_sender), and the guard goes at the end of the block
InsertSender(c) ==
    /\ pc[c] = "insert"
    /\ pending_lock = c
    /\ pending' = MapInsert(pending, id[c], c)
    /\ pending_lock' = 0
    /\ pc' = [pc EXCEPT ![c] = "read_header"]
    /\ UNCHANGED <<count, inner_codec, id, req, hdr, done, result>>
    /\ UNCHANGED <<server_vars, actix_vars>>
    /\ UNCHANGED reader_vars
    /\ UNCHANGED <<dial, peer_log>>

\* _read_response at read_response_body().await: the body is kept with the
\* header it follows
ReadBodyThenLock(c) ==
    /\ pc[c] = "read_body"
    /\ \/ /\ s2c # << >>
          /\ s2c' = Tail(s2c)
          /\ hdr' = [hdr EXCEPT ![c] =
                Some([id |-> hdr[c][1].id, is_error |-> hdr[c][1].is_error,
                      body |-> Head(s2c)])]
          /\ pc' = [pc EXCEPT ![c] = "deliver"]
          /\ UNCHANGED <<result, inner_codec>>
       \/ /\ s2c = << >>
          /\ stream = "closed"
          /\ Return(c, RErr(IoError("Unexpected EOF reading response body")))
          /\ UNCHANGED <<hdr, s2c>>
    /\ UNCHANGED <<count, pending, id, req, done, c2s, stream>>
    /\ UNCHANGED server_vars
    /\ UNCHANGED reader_vars
    /\ UNCHANGED <<dial, pending_lock, peer_log>>

\* _read_response under the pending guard: remove(&id) and send, then
\* _handle_response; the guard goes when _read_response returns
Deliver(c) ==
    /\ pc[c] = "deliver"
    /\ pending_lock = c
    /\ pending_lock' = 0
    /\ LET h == hdr[c][1]
           res == [id |-> h.id, is_error |-> h.is_error, body |-> h.body]
       IN IF h.id \in DOMAIN pending
          THEN LET target == Correlate(pending, h, c) IN
               /\ pending' = MapRemove(pending, h.id)
               /\ IF ReceiverAlive(target) \/ pc[target] = "deliver"
                  THEN /\ done' = [done EXCEPT ![target] = Some(res)]
                       /\ Return(c, HandleResponse(done'[c], SenderAlive(pending', c)))
                  ELSE /\ Return(c, RErr(TransportError("Failed to send")))
                       /\ UNCHANGED done
          ELSE /\ Return(c, HandleResponse(done[c], SenderAlive(pending, c)))
               /\ UNCHANGED <<pending, done>>
    /\ UNCHANGED <<count, id, req, hdr, c2s, s2c, stream>>
    /\ UNCHANGED server_vars
    /\ UNCHANGED reader_vars
    /\ UNCHANGED <<dial, peer_log>>

LockNext ==
    \/ \E c \in Calls : AsyncCall(c)
    \/ \E c \in Calls, input \in LockInputs : LockCodecAndWrite(c, input)
    \/ \E c \in Calls : WriteRequestErr(c)
    \/ \E c \in Calls : LockPending(c)
    \/ \E c \in Calls : InsertSender(c)
    \/ \E c \in Calls : ReadResponseHeader(c)
    \/ \E c \in Calls : ReadBodyThenLock(c)
    \/ \E c \in Calls : Deliver(c)
    \/ \E c \in Calls : DropFuture(c)
    \/ CloseStream
    \/ StreamHandle
    \/ \E f \in running : HandlerFuture(f)
    \/ HandleResult

\* the client with each pending.lock() as a step of its own
LockSpec == Init /\ [][LockNext]_vars

\* call c waits for a mutex that call d holds
WaitsFor(c, d) ==
    /\ c # d
    /\ \/ pc[c] = "lock" /\ inner_codec = d
       \/ pc[c] \in PendingLockPoints /\ pending_lock = d

\* C32: the calls never wait on one another in a cycle over the two mutexes:
\* the pending map's mutex is held only by the call that holds the codec's,
\* and only inside the insert and the remove-and-send, not across a wait for
\* the codec or for the transport.
C32_NoLockCycle ==
    /\ \A c, d \in Calls : ~(WaitsFor(c, d) /\ WaitsFor(d, c))
    /\ \A c \in Calls :
          pending_lock = c => (inner_codec = c /\ pc[c] \in {"insert", "deliver"})

\* a call holds the pending map's mutex to deliver a Response while another
\* call waits for the codec
C32_Witness ==
    \E c, d \in Calls :
        /\ pc[c] = "deliver"
        /\ pending_lock = c
        /\ pc[d] = "lock"
        /\ WaitsFor(d, c)

(* ------------------------------------- the actor and a peer of its own *)
\* the most websocket messages the peer sends in one behaviour
MaxPeer == 4

\* an argument of type (u16, String): marshalled, it is what a RequestHeader
\* with these fields marshals to
HeaderLikeArgs == Marshal("RequestHeader", RequestHeader(9, noseparator))

\* a request header damaged on the way: it unmarshals to nothing
DamagedHeader == Marshal("Damaged", << >>)

\* what the peer sends: a request header, whole or damaged, bodies, a Ping
\* and a Text
PeerMessages ==
    { Marshal("RequestHeader", RequestHeader(1, Ar_add)),
      DamagedHeader,
      Marshal("Args", PairArgs),
      HeaderLikeArgs,
      Ping,
      Text }

\* the peer sends a websocket message
PeerSends(m) ==
    /\ stream = "open"
    /\ Len(peer_log) < MaxPeer
    /\ c2s' = Append(c2s, m)
    /\ peer_log' = Append(peer_log, m)
    /\ UNCHANGED <<s2c, stream>>
    /\ UNCHANGED <<client_vars, server_vars>>
    /\ UNCHANGED reader_vars
    /\ UNCHANGED <<dial, pending_lock>>

\* an actor that takes the header out for every message it handles
AfterNonBinary_Take(rh) == None

\* the arms of handle for Ping, Text and `_`: self.req_header is not touched
AfterNonBinary(rh) == rh

\* StreamHandler::handle for Ok(ws::Message::Ping(msg)), Ok(ws::Message::Text(text))
\* and the other items
StreamHandleOther ==
    /\ stream = "open"
    /\ c2s # << >>
    /\ ~IsBinary(Head(c2s))
    /\ c2s' = Tail(c2s)
    /\ req_header' = AfterNonBinary(req_header)
    /\ s2c' = IF Head(c2s).ty = "Ping" THEN Append(s2c, Pong) ELSE s2c
    /\ UNCHANGED <<running, mailbox, dispatch_log, handler_log, wire_out, result_log, stream>>
    /\ UNCHANGED client_vars
    /\ UNCHANGED reader_vars
    /\ UNCHANGED <<dial, pending_lock, peer_log>>

ActorNext ==
    \/ \E m \in PeerMessages : PeerSends(m)
    \/ StreamHandle
    \/ StreamHandleOther
    \/ \E f \in running : HandlerFuture(f)
    \/ HandleResult
    \/ CloseStream

\* the ServerActor of one connection and a peer that sends what it likes
ActorSpec == Init /\ [][ActorNext]_vars

\* C33: the actor pairs binary messages by position.  req_header becomes Some
\* only when a binary message decodes as a header while it is None; the next
\* binary message is dispatched as the body of that header and leaves
\* req_header None; a Ping, a Text or another non-binary message changes
\* neither req_header nor what was dispatched or written as Responses.
C33_PositionalPairing ==
    [][ ( /\ stream = "open"
          /\ stream' = "open"
          /\ c2s # << >>
          /\ c2s' = Tail(c2s) )
        => LET m == Head(c2s) IN
           IF ~IsBinary(m)
           THEN /\ req_header' = req_header
                /\ dispatch_log' = dispatch_log
                /\ running' = running
                /\ wire_out' = wire_out
           ELSE IF req_header = None
           THEN /\ req_header' = IF m.ty = "RequestHeader" THEN Some(m.val) ELSE None
                /\ dispatch_log' = dispatch_log
                /\ wire_out' = wire_out
           ELSE /\ req_header' = None
                /\ Len(dispatch_log') = Len(dispatch_log) + 1
                /\ dispatch_log'[Len(dispatch_log')].id = req_header[1].id
                /\ dispatch_log'[Len(dispatch_log')].service_method
                       = req_header[1].service_method
                /\ \A f \in running' \ running : f.deserializer = m
      ]_vars

\* a Ping and a Text came between a header and its body, and the body was
\* dispatched with the header's id
C33_Witness ==
    /\ peer_log = << Marshal("RequestHeader", RequestHeader(1, Ar_add)), Ping, Text,
                     Marshal("Args", PairArgs) >>
    /\ c2s = << >>
    /\ req_header = None
    /\ Len(dispatch_log) = 1
    /\ dispatch_log[1].id = 1
    /\ \E k \in 1..Len(s2c) : s2c[k] = Pong

\* the binary messages the peer sent, and whether it sent them as requests:
\* a header, whole or damaged, then a body, and so on
PeerBinaries == SelectSeq(peer_log, IsBinary)
PeerSentRequests ==
    \A j \in 1..Len(PeerBinaries) :
        IF j % 2 = 1
        THEN PeerBinaries[j] \in {Marshal("RequestHeader", RequestHeader(1, Ar_add)),
                                  DamagedHeader}
        ELSE PeerBinaries[j] \in {Marshal("Args", PairArgs), HeaderLikeArgs}

\* the headers the peer sent as headers
PeerHeaders ==
    {PeerBinaries[j].val :
        j \in {i \in 1..Len(PeerBinaries) :
                  i % 2 = 1 /\ PeerBinaries[i].ty = "RequestHeader"}}

\* C34: a binary message that does not unmarshal as a request header gets no
\* Response and leaves req_header None, and the requests that follow it are
\* still paired header with own body and answered with their own ids: what
\* the actor holds as header, dispatches and answers is a request the peer
\* sent.
C34_BadHeaderThenPairing ==
    PeerSentRequests =>
        /\ req_header # None => req_header[1] \in PeerHeaders
        /\ \A k \in LogIndex :
              \E h \in PeerHeaders :
                  /\ h.id = dispatch_log[k].id
                  /\ h.service_method = dispatch_log[k].service_method
        /\ \A k \in 1..Len(wire_out) :
              wire_out[k].ty = "ResponseHeader" =>
                  \E h \in PeerHeaders : h.id = wire_out[k].val.id

(* --------------------------------------------- a result that cannot be sent *)
\* the calls of EmitSpec: to a method whose result cannot be marshalled, to
\* one whose result can, and one that is answered with an error
EmitInputs == {<<Ar_map, UnitArgs>>, <<Ar_add, PairArgs>>, <<noseparator, UnitArgs>>}

EmitNext ==
    \/ \E c \in Calls : AsyncCall(c)
    \/ \E c \in Calls, input \in EmitInputs : WriteRequest(c, input)
    \/ \E c \in Calls : WriteRequestErr(c)
    \/ \E c \in Calls : ReadResponseHeader(c)
    \/ \E c \in Calls : ReadResponseBody(c)
    \/ \E c \in Calls : DropFuture(c)
    \/ CloseStream
    \/ StreamHandle
    \/ \E f \in running : HandlerFuture(f)
    \/ HandleResult

EmitSpec == Init /\ [][EmitNext]_vars

\* C35: send_response_via_context writes the Response header and its body,
\* in that order and next to each other, or nothing, also when marshalling
\* the body fails: no Response header is on the wire without its body.
C35_ResponseAllOrNothing ==
    /\ \A k \in ResultIndex :
          \/ result_log[k].out = << >>
          \/ /\ Len(result_log[k].out) = 2
             /\ result_log[k].out[1].ty = "ResponseHeader"
             /\ result_log[k].out[2].ty \in {"Value", "ErrorMessage"}
    /\ \A k \in 1..Len(wire_out) :
          wire_out[k].ty = "ResponseHeader" =>
              /\ k < Len(wire_out)
              /\ wire_out[k + 1].ty \in {"Value", "ErrorMessage"}

(* ------------------------------------------ the reader without its broker *)
\* the broker's receiver is dropped
DropBroker ==
    /\ ~BrokerGone
    /\ broker' = Append(broker, BrokerDropped)
    /\ UNCHANGED <<wire, wire_closed, rpos, wmsg, rd, rd_header, op_log, write_log>>
    /\ UNCHANGED <<client_vars, server_vars, actix_vars, dial, pending_lock, peer_log>>

GoneNext ==
    \/ ReaderNext
    \/ DropBroker

\* the frame codec's writer, the ClientReader and a broker that may go away
GoneSpec == Init /\ [][GoneNext]_vars

\* the transport has reported end-of-stream to the reader
AtEof == wire_closed /\ rpos = Len(wire)

MaxStray == 2

\* the ids the peer answers with: those the calls take, and one no call has
StrayIds == {0, 1, 7}

\* the calls of StraySpec all ask for Arith.add
StrayInputs == {<<Ar_add, PairArgs>>}

\* the peer writes a Response: a header with the id it chooses, then a body
PeerResponds(i, is_error) ==
    /\ stream = "open"
    /\ Len(wire_out) < 2 * MaxStray
    /\ LET out == << Marshal("ResponseHeader", ResponseHeader(i, is_error)),
                     IF is_error THEN Marshal("ErrorMessage", Msg("ExecutionError", "e"))
                                 ELSE Marshal("Value", 5) >>
       IN /\ s2c' = s2c \o out
          /\ wire_out' = wire_out \o out
    /\ UNCHANGED <<req_header, running, mailbox, dispatch_log, handler_log, result_log,
                   c2s, stream>>
    /\ UNCHANGED client_vars
    /\ UNCHANGED reader_vars
    /\ UNCHANGED <<dial, pending_lock, peer_log>>

StrayNext ==
    \/ \E c \in Calls : AsyncCall(c)
    \/ \E c \in Calls, input \in StrayInputs : WriteRequest(c, input)
    \/ \E c \in Calls : WriteRequestErr(c)
    \/ \E c \in Calls : ReadResponseHeader(c)
    \/ \E c \in Calls : ReadResponseBody(c)
    \/ \E c \in Calls : DropFuture(c)
    \/ \E i \in StrayIds, is_error \in BOOLEAN : PeerResponds(i, is_error)
    \/ CloseStream

\* the client on a connection whose peer answers with the ids it likes
StraySpec == Init /\ [][StrayNext]_vars

\* C37: when the Response a call reads carries an id that is not in the
\* pending map, it is delivered to no one and the reading call returns a
\* transport error; when the id is in the map, the entry is removed and only
\* the sink stored under that id, empty until then, is completed.
C37_UnknownIdDropped ==
    [][ \A c \in Calls :
          ( /\ pc[c] = "read_body"
            /\ s2c # << >>
            /\ s2c' = Tail(s2c)
            /\ pc'[c] = "done" )
          => LET h == hdr[c][1] IN
             IF h.id \notin DOMAIN pending
             THEN /\ done' = done
                  /\ pending' = pending
                  /\ ~result'[c][1].ok
                  /\ result'[c][1].err.e = "TransportError"
             ELSE /\ h.id \notin DOMAIN pending'
                  /\ \A d \in Calls :
                        done'[d] # done[d] => (done[d] = None /\ d = pending[h.id])
      ]_vars

\* a call has read a Response with the id no call has, and has returned the
\* transport error with nothing delivered
C37_Witness ==
    \E c \in Calls :
        /\ pc[c] = "done"
        /\ hdr[c] # None
        /\ hdr[c][1].id = 7
        /\ result[c] = Some(RErr(TransportError("out of date")))
        /\ \A d \in Calls : done[d] = None

(* ------------------------------------------------ a Request that fails *)
\* call c returns the error of write_request in this step
WriteFails(c) ==
    /\ pc[c] \in {"lock", "write_body"}
    /\ pc'[c] = "done"
    /\ result'[c] = Some(RErr(IoError("write")))

\* C38: a call whose write_request fails returns that error with nothing
\* registered: the pending map is as it was and holds no entry of the call,
\* no Response is read from the transport, no sink is completed, and of the
\* client's state only the id counter has changed, by the one step the call
\* took when it got its id.
C38_FailedWriteRegistersNothing ==
    [][ /\ \A c \in Calls : WriteFails(c) =>
              /\ pending' = pending
              /\ \A i \in DOMAIN pending' : pending'[i] # c
              /\ s2c' = s2c
              /\ hdr' = hdr
              /\ hdr'[c] = None
              /\ done' = done
              /\ done'[c] = None
              /\ count' = count
              /\ id' = id
        /\ \A c \in Calls : (pc[c] = "idle" /\ pc'[c] = "lock") =>
              /\ id'[c] = count
              /\ count' = (count + 1) % IdModulus
      ]_vars

\* the second call has returned the write error, the connection having closed
\* after its header was written: only the first call's sender is registered,
\* no Response was read and the counter counts both calls
C38_Witness ==
    /\ pc[2] = "done"
    /\ result[2] = Some(RErr(IoError("write")))
    /\ req[2] # None
    /\ stream = "closed"
    /\ DOMAIN pending = {id[1]}
    /\ pending[id[1]] = 1
    /\ hdr[2] = None
    /\ count = 2

====
